---------------------------- MODULE Spec2Model ----------------------------
(***************************************************************************)
(* Aho-Corasick pattern matcher (ahocorasick::PatternMatcher).             *)
(*                                                                         *)
(* A std::string is a sequence of character codes (ASCII).  A size_t value *)
(* is represented by its two's-complement signed reading: a negative model *)
(* value x stands for the size_t 2^64 + x, so the wrap-around of           *)
(* `column - pattern.length() + 1` is the integer the subtraction gives    *)
(* and size_t comparisons are made with SizeLess.  All lengths of the      *)
(* model are far below 2^63, so addition and subtraction are exact.        *)
(***************************************************************************)
EXTENDS Integers, Sequences, FiniteSets, TLC

\* ------------------------------------------------------------ bounds
MaxPatLen == 3
MaxTextLen == 4
MaxContext == 1
MaxFileLen == 4

\* ------------------------------------------------- program constants
ALPHABET_SIZE == 28
DEFAULT_CONTEXT == 20

\* TrieNode* nullptr; node references are indices into the heap `nodes`.
NULL == 0
\* The address held by root_ after `new TrieNode()`.
ROOT == 1

\* ------------------------------------------------- characters (<cctype>)
isupper(c) == c >= 65 /\ c <= 90
islower(c) == c >= 97 /\ c <= 122
isalpha(c) == isupper(c) \/ islower(c)
tolower(c) == IF isupper(c) THEN c + 32 ELSE c

\* int char_to_index(char c)
char_to_index(c) ==
    IF c = 32 THEN 26
    ELSE IF c = 45 THEN 27
    ELSE IF c >= 97 /\ c <= 122 THEN c - 97
    ELSE IF c >= 65 /\ c <= 90 THEN tolower(c) - 97
    ELSE -1

\* A normalizer that writes a space for every symbol it has no rule for,
\* instead of dropping it.
clean_char_blanking(cs, c) ==
    IF isalpha(c) THEN << IF cs THEN c ELSE tolower(c) >>
    ELSE IF c = 32 \/ c = 45 \/ c = 10 THEN << c >>
    ELSE << 32 >>

\* The body of the loop of clean_text for one character: what is appended.
clean_char(cs, c) ==
    IF isalpha(c) THEN << IF cs THEN c ELSE tolower(c) >>
    ELSE IF c = 32 \/ c = 45 \/ c = 10 THEN << c >>
    ELSE IF c = 9 THEN << 32 >>
    ELSE << >>

RECURSIVE clean_text(_, _)
\* std::string PatternMatcher::clean_text(text), cs = case_sensitive_
clean_text(cs, text) ==
    IF text = << >> THEN << >>
    ELSE clean_char(cs, Head(text)) \o clean_text(cs, Tail(text))

RECURSIVE split_from(_, _, _)
\* The std::getline loop of split_lines: `line` is the line being read.
\* A line is pushed at each '\n', and at end of input when characters were
\* read after the last '\n'.
split_from(text, line, lines) ==
    IF text = << >>
    THEN IF line = << >> THEN lines ELSE Append(lines, line)
    ELSE IF Head(text) = 10
         THEN split_from(Tail(text), << >>, Append(lines, line))
         ELSE split_from(Tail(text), Append(line, Head(text)), lines)

\* void PatternMatcher::split_lines(text, lines)
split_lines(text) == split_from(text, << >>, << >>)


\* ------------------------------------------------------------- the trie
\* The slots children[idx] can address.  The array has ALPHABET_SIZE
\* entries, 0 .. ALPHABET_SIZE-1; slot -1 is the word in front of the
\* array, which children[-1] reads and writes when build_trie indexes with
\* the -1 that char_to_index returns (undefined behaviour, see initialize).
ChildSlots == -1 .. (ALPHABET_SIZE - 1)

\* struct TrieNode, as `new TrieNode()` leaves it.
NewNode ==
    [children        |-> [i \in ChildSlots |-> NULL],
     is_end_of_word  |-> FALSE,
     failure_link    |-> NULL,
     output_link     |-> NULL,
     pattern_indices |-> << >>,
     depth           |-> 0]

Max(a, b) == IF a >= b THEN a ELSE b
Min(a, b) == IF a <= b THEN a ELSE b

\* A clear_trie that leaves the tree and the counters as they are.
keep_trie(t) == t

\* void PatternMatcher::clear_trie(), t the tree and the counters before
\* the call: root_.reset(new TrieNode()) frees the old tree; the heap
\* holds the new root alone.
clear_trie(t) ==
    [nodes |-> << NewNode >>, node_count_ |-> 1, max_depth_ |-> 0]

RECURSIVE insert_pattern(_, _, _, _)
\* The inner loop of build_trie for pattern i: `node` is the current node,
\* `pattern` the characters still to insert.
insert_pattern(t, node, pattern, i) ==
    IF pattern = << >>
    THEN [t EXCEPT !.nodes[node].is_end_of_word = TRUE,
                   !.nodes[node].pattern_indices = Append(@, i)]
    ELSE LET idx == char_to_index(Head(pattern))
         IN  IF t.nodes[node].children[idx] = NULL
             THEN LET child == Len(t.nodes) + 1
                      d     == t.nodes[node].depth + 1
                      t2    == [t EXCEPT
                                  !.nodes = Append(
                                      [@ EXCEPT ![node].children[idx] = child],
                                      [NewNode EXCEPT !.depth = d]),
                                  !.max_depth_ = Max(@, d),
                                  !.node_count_ = @ + 1]
                  IN  insert_pattern(t2, child, Tail(pattern), i)
             ELSE insert_pattern(t, t.nodes[node].children[idx],
                                 Tail(pattern), i)

RECURSIVE build_trie_no_skip(_, _, _, _)
\* A build without `if (pattern.empty()) continue;`: a pattern that is
\* empty after clean_text ends at the root.
build_trie_no_skip(t, patterns, cs, i) ==
    IF i >= Len(patterns) THEN t
    ELSE build_trie_no_skip(insert_pattern(t, ROOT,
                                           clean_text(cs, patterns[i + 1]), i),
                            patterns, cs, i + 1)

RECURSIVE build_trie_from(_, _, _, _)
\* The outer loop of build_trie, from PatternID i on.
build_trie_from(t, patterns, cs, i) ==
    IF i >= Len(patterns) THEN t
    ELSE LET pattern == clean_text(cs, patterns[i + 1])
         IN  IF pattern = << >>
             THEN build_trie_from(t, patterns, cs, i + 1)
             ELSE build_trie_from(insert_pattern(t, ROOT, pattern, i),
                                  patterns, cs, i + 1)

\* void PatternMatcher::build_trie()
build_trie(t, patterns, cs) == build_trie_from(t, patterns, cs, 0)

RECURSIVE follow_failure(_, _, _)
\* while (failure != root_.get() && !failure->children[i])
\*     failure = failure->failure_link;
follow_failure(nodes, failure, i) ==
    IF failure # ROOT /\ nodes[failure].children[i] = NULL
    THEN follow_failure(nodes, nodes[failure].failure_link, i)
    ELSE failure

\* Links whose output_link is the failure link when that node is terminal
\* and null otherwise: the output_link of the failure link is not passed
\* on.
link_child_near(nodes, current, i) ==
    LET child   == nodes[current].children[i]
        failure == follow_failure(nodes, nodes[current].failure_link, i)
        fl      == IF nodes[failure].children[i] # NULL
                   THEN nodes[failure].children[i] ELSE ROOT
        ol      == IF nodes[fl].pattern_indices = << >> THEN NULL ELSE fl
    IN  [nodes EXCEPT ![child].failure_link = fl, ![child].output_link = ol]

\* The links build_failure_links gives the child of `current` in slot i.
link_child(nodes, current, i) ==
    LET child   == nodes[current].children[i]
        failure == follow_failure(nodes, nodes[current].failure_link, i)
        fl      == IF nodes[failure].children[i] # NULL
                   THEN nodes[failure].children[i] ELSE ROOT
        ol      == IF nodes[fl].pattern_indices = << >>
                   THEN nodes[fl].output_link ELSE fl
    IN  [nodes EXCEPT ![child].failure_link = fl, ![child].output_link = ol]

\* The first slot from i on in which `node` has a child (the loops over
\* the slots pass the empty ones), ALPHABET_SIZE when there is none.
next_child(node, i) ==
    LET used == { j \in i .. (ALPHABET_SIZE - 1) : node.children[j] # NULL }
    IN  IF used = {} THEN ALPHABET_SIZE
        ELSE CHOOSE j \in used : \A k \in used : j <= k

RECURSIVE link_children(_, _, _, _)
\* for (int i = 0; i < ALPHABET_SIZE; ++i) of the BFS loop, from i on:
\* the pair of the heap and the queue.
link_children(nodes, queue, current, i) ==
    LET j == next_child(nodes[current], i)
    IN  IF j >= ALPHABET_SIZE THEN << nodes, queue >>
        ELSE link_children(link_child(nodes, current, j),
                           Append(queue, nodes[current].children[j]),
                           current, j + 1)

RECURSIVE bfs_links(_, _)
\* while (!node_queue.empty()) of build_failure_links
bfs_links(nodes, queue) ==
    IF queue = << >> THEN nodes
    ELSE LET r == link_children(nodes, Tail(queue), Head(queue), 0)
         IN  bfs_links(r[1], r[2])

RECURSIVE root_children(_, _, _)
\* The first loop of build_failure_links: the root's children fail to the
\* root and are queued.
root_children(nodes, queue, i) ==
    LET j == next_child(nodes[ROOT], i)
    IN  IF j >= ALPHABET_SIZE THEN << nodes, queue >>
        ELSE LET child == nodes[ROOT].children[j]
             IN  root_children([nodes EXCEPT ![child].failure_link = ROOT],
                               Append(queue, child), j + 1)

\* void PatternMatcher::build_failure_links()
build_failure_links(nodes) ==
    LET r == root_children([nodes EXCEPT ![ROOT].failure_link = ROOT], << >>, 0)
    IN  bfs_links(r[1], r[2])

\* ------------------------------------------------------------ the scan
\* a < b on size_t values in the signed representation: the values that
\* stand for 2^64 + x (x < 0) are above every non-negative one.
SizeLess(a, b) == IF (a < 0) = (b < 0) THEN a < b ELSE b < 0

\* bool MatchResult::operator<: std::tie(line, column, pattern_id)
MatchLess(a, b) ==
    \/ SizeLess(a.line, b.line)
    \/ /\ a.line = b.line
       /\ \/ SizeLess(a.column, b.column)
          \/ a.column = b.column /\ SizeLess(a.pattern_id, b.pattern_id)

\* std::string::substr(start, n) for start <= size(): the characters
\* [start, start + min(n, size() - start)), positions counted from 0.  n is
\* a size_t: a negative n stands for a value above every length.
substr(str, start, n) ==
    LET count == IF SizeLess(n, Len(str) - start) THEN n ELSE Len(str) - start
    IN  SubSeq(str, start + 1, start + count)

RECURSIVE unique_spaces(_)
\* context.erase(std::unique(..., a == ' ' && b == ' '), context.end())
unique_spaces(str) ==
    IF Len(str) <= 1 THEN str
    ELSE IF str[1] = 32 /\ str[2] = 32 THEN unique_spaces(Tail(str))
         ELSE << str[1] >> \o unique_spaces(Tail(str))

\* A record whose context runs one symbol further: it ends after the
\* position pos + context_size instead of before it.
make_match_wide(patterns, pattern_idx, line, column, line_text, pos, context_size) ==
    LET pattern == patterns[pattern_idx + 1]
        start   == IF pos + 1 > Len(pattern)
                   THEN Min(pos - Len(pattern), Len(line_text)) ELSE 0
        end     == Min(pos + context_size + 1, Len(line_text))
    IN  [line       |-> line,
         column     |-> column - Len(pattern) + 1,
         pattern    |-> pattern,
         context    |-> unique_spaces(substr(line_text, start, end - start)),
         pattern_id |-> pattern_idx]

\* The body of the inner loop of collect_matches: the record pushed for
\* pattern_idx.  pattern.length() is the length of patterns_[pattern_idx]
\* as supplied.
make_match(patterns, pattern_idx, line, column, line_text, pos, context_size) ==
    LET pattern == patterns[pattern_idx + 1]
        start   == IF pos + 1 > Len(pattern)
                   THEN Min(pos - Len(pattern), Len(line_text)) ELSE 0
        end     == Min(pos + context_size, Len(line_text))
    IN  [line       |-> line,
         column     |-> column - Len(pattern) + 1,
         pattern    |-> pattern,
         context    |-> unique_spaces(substr(line_text, start, end - start)),
         pattern_id |-> pattern_idx]

RECURSIVE push_matches(_, _, _, _, _, _, _, _)
\* for (PatternID pattern_idx : temp->pattern_indices), `indices` the ids
\* still to visit.
push_matches(patterns, indices, matches, line, column, line_text, pos, context_size) ==
    IF indices = << >> THEN matches
    ELSE push_matches(patterns, Tail(indices),
                      Append(matches, make_match(patterns, Head(indices), line,
                                                 column, line_text, pos,
                                                 context_size)),
                      line, column, line_text, pos, context_size)

\* A collection that reports the patterns of the node alone and does not
\* walk its output_link chain.
collect_only_node(nodes, patterns, temp, matches, line, column, line_text, pos, context_size) ==
    IF temp = NULL THEN matches
    ELSE push_matches(patterns, nodes[temp].pattern_indices, matches, line,
                      column, line_text, pos, context_size)

RECURSIVE collect_matches(_, _, _, _, _, _, _, _, _)
\* void PatternMatcher::collect_matches(node, matches, line, column,
\*                                      line_text, pos, context_size)
collect_matches(nodes, patterns, temp, matches, line, column, line_text, pos, context_size) ==
    IF temp = NULL THEN matches
    ELSE collect_matches(nodes, patterns, nodes[temp].output_link,
                         push_matches(patterns, nodes[temp].pattern_indices,
                                      matches, line, column, line_text, pos,
                                      context_size),
                         line, column, line_text, pos, context_size)

RECURSIVE scan_step(_, _, _)
\* One transition of the automaton in search: follow failure links while
\* the node has no child idx, then take the child if there is one.
scan_step(nodes, current_node, idx) ==
    IF current_node # ROOT /\ nodes[current_node].children[idx] = NULL
    THEN scan_step(nodes, nodes[current_node].failure_link, idx)
    ELSE IF nodes[current_node].children[idx] # NULL
         THEN nodes[current_node].children[idx]
         ELSE current_node

\* if (!current_node->pattern_indices.empty()) collect_matches(...)
emit(nodes, patterns, current_node, matches, line, column, line_text, pos, context_size) ==
    IF nodes[current_node].pattern_indices # << >>
    THEN collect_matches(nodes, patterns, current_node, matches, line, column,
                         line_text, pos, context_size)
    ELSE matches

RECURSIVE scan_line(_, _, _, _, _, _, _, _)
\* for (size_t col = 0; col < line.size(); ++col) of search, from col on:
\* the node the line ends in, and the matches.
scan_line(nodes, patterns, line, line_num, col, current_node, matches, context_size) ==
    IF col >= Len(line) THEN [node |-> current_node, matches |-> matches]
    ELSE LET idx == char_to_index(line[col + 1])
         IN  IF idx = -1
             THEN scan_line(nodes, patterns, line, line_num, col + 1,
                            current_node, matches, context_size)
             ELSE LET next == scan_step(nodes, current_node, idx)
                  IN  scan_line(nodes, patterns, line, line_num, col + 1, next,
                                emit(nodes, patterns, next, matches,
                                     line_num + 1, col + 1, line, col,
                                     context_size),
                                context_size)

\* A scan that keeps, at the head of a line, the node the line before
\* ended in.
line_carry(previous) == previous

\* TrieNode* current_node = root_.get(); at the head of the loop over the
\* lines, whatever node the line before ended in.
line_start(previous) == ROOT

RECURSIVE scan_lines(_, _, _, _, _, _, _)
\* for (size_t line_num = 0; line_num < lines.size(); ++line_num), from
\* line_num on; `previous` is the node the line before ended in.
scan_lines(nodes, patterns, lines, line_num, previous, matches, context_size) ==
    IF line_num >= Len(lines) THEN matches
    ELSE LET r == scan_line(nodes, patterns, lines[line_num + 1], line_num, 0,
                            line_start(previous), matches, context_size)
         IN  scan_lines(nodes, patterns, lines, line_num + 1, r.node,
                        r.matches, context_size)

RECURSIVE insert_sorted(_, _)
insert_sorted(sorted, m) ==
    IF sorted = << >> THEN << m >>
    ELSE IF MatchLess(m, Head(sorted)) THEN << m >> \o sorted
         ELSE << Head(sorted) >> \o insert_sorted(Tail(sorted), m)

RECURSIVE sort_from(_, _)
sort_from(sorted, rest) ==
    IF rest = << >> THEN sorted
    ELSE sort_from(insert_sorted(sorted, Head(rest)), Tail(rest))

\* A search that returns the records as collected.
unsorted(matches) == matches

\* std::sort(matches.begin(), matches.end()).  No two records of one search
\* have the same (line, column, pattern_id), so the order is determined.
sort_matches(matches) == sort_from(<< >>, matches)

\* std::vector<MatchResult> PatternMatcher::search(text, context_size)
search(nodes, patterns, cs, text, context_size) ==
    sort_matches(scan_lines(nodes, patterns, split_lines(clean_text(cs, text)),
                            0, ROOT, << >>, context_size))

\* ------------------------------------------------------- the instance
VARIABLES
    case_sensitive_,  \* PatternMatcher::case_sensitive_
    patterns_,        \* PatternMatcher::patterns_
    nodes,            \* the heap of TrieNodes owned by root_; root_ is ROOT
    node_count_,      \* PatternMatcher::node_count_
    max_depth_,       \* PatternMatcher::max_depth_
    alive,            \* the process runs (FALSE once it was aborted)
    undefined,        \* some call had undefined behaviour
    op,               \* the last call made on the instance
    threw,            \* that call threw an exception
    supplied,         \* the argument of the last initialize
    text,             \* the arguments of the last search
    context_size,
    matches,          \* what the last search returned
    kept,             \* an earlier search on the automaton as it is now,
                      \* kept by the caller: << >> or one record of its
                      \* arguments and its result
    rebuilt,          \* the last initialize that built an automaton
                      \* replaced one that had nodes besides the root
    scans,            \* the locals of the calls of search in progress at
                      \* the same time, one record for each caller
    file,             \* the pattern file last given to
                      \* load_patterns_from_file: its characters, or
                      \* Unreadable
    loaded,           \* what that call returned (<< >> when it threw)
    menu_patterns,    \* the locals of ui::interactive_menu: patterns,
    menu_text,        \* text,
    menu_context,     \* context_size,
    last_results,     \* last_results,
    choice            \* and the choice it handled last (-1: none yet)

vars == << case_sensitive_, patterns_, nodes, node_count_, max_depth_, alive,
           undefined, op, threw, supplied, text, context_size, matches, kept,
           rebuilt, scans, file, loaded, menu_patterns, menu_text,
           menu_context, last_results, choice >>

matcher == << case_sensitive_, patterns_, nodes, node_count_, max_depth_ >>

\* The tree owned by root_ and the two counters.
trie == [nodes |-> nodes, node_count_ |-> node_count_, max_depth_ |-> max_depth_]

\* The locals of the menu besides its matcher.
menu == << menu_patterns, menu_text, menu_context, last_results, choice >>

\* What the user interface holds: the pattern file and the menu's locals.
ui == << file, loaded, menu >>

\* A path std::ifstream cannot open: no characters, but the mark -1, which
\* is no character code.
Unreadable == << -1 >>

\* The callers that may be inside search at the same time.
Scanners == {"first", "second"}

\* The locals of a caller that is not inside search.
Idle ==
    [pc |-> "idle", text |-> << >>, lines |-> << >>, line_num |-> 0,
     col |-> 0, current_node |-> NULL, matches |-> << >>]

\* if (patterns.empty()) throw std::invalid_argument(...)
rejects(patterns) == patterns = << >>

\* What initialize(patterns) makes of the instance when it does not throw,
\* `before` the tree and the counters it finds: patterns_ = patterns;
\* clear_trie(); build_trie(); build_failure_links().
initialize(before, patterns, cs) ==
    LET t == build_trie(clear_trie(before), patterns, cs)
    IN  [patterns_   |-> patterns,
         nodes       |-> build_failure_links(t.nodes),
         node_count_ |-> t.node_count_,
         max_depth_  |-> t.max_depth_]

\* build_trie evaluates node->children[idx] with idx = -1: some pattern
\* keeps, after clean_text, a character char_to_index has no code for.
indexes_out_of_range(patterns, cs) ==
    \E i \in 1..Len(patterns) :
        LET pattern == clean_text(cs, patterns[i])
        IN  \E k \in 1..Len(pattern) : char_to_index(pattern[k]) = -1

\* PatternMatcher::PatternMatcher(verbose, case_sensitive): root_ is a new
\* node (its failure_link is not set), patterns_ is empty, node_count_ and
\* max_depth_ are 0.  verbose_ only selects what is printed and is left out.
Construct(cs) ==
    /\ case_sensitive_ = cs
    /\ patterns_ = << >>
    /\ nodes = << NewNode >>
    /\ node_count_ = 0
    /\ max_depth_ = 0
    /\ alive = TRUE
    /\ undefined = FALSE
    /\ op = "construct"
    /\ threw = FALSE
    /\ supplied = << >>
    /\ text = << >>
    /\ context_size = 0
    /\ matches = << >>
    /\ kept = << >>
    /\ rebuilt = FALSE
    /\ scans = [i \in Scanners |-> Idle]
    /\ file = << >>
    /\ loaded = << >>
    /\ menu_patterns = << >>
    /\ menu_text = << >>
    /\ menu_context = DEFAULT_CONTEXT
    /\ last_results = << >>
    /\ choice = -1

\* matcher.initialize(patterns) with an empty list: the exception leaves
\* before anything is assigned.
InitializeThrows(patterns) ==
    /\ alive
    /\ rejects(patterns)
    /\ op' = "initialize"
    /\ threw' = TRUE
    /\ supplied' = patterns
    /\ text' = << >> /\ context_size' = 0 /\ matches' = << >>
    /\ UNCHANGED << matcher, alive, undefined, kept, rebuilt, scans, ui >>

\* matcher.initialize(patterns) building the automaton.
Initialize(patterns) ==
    /\ alive
    /\ ~rejects(patterns)
    /\ ~indexes_out_of_range(patterns, case_sensitive_)
    /\ LET m == initialize(trie, patterns, case_sensitive_)
       IN  /\ patterns_' = m.patterns_
           /\ nodes' = m.nodes
           /\ node_count_' = m.node_count_
           /\ max_depth_' = m.max_depth_
    /\ op' = "initialize"
    /\ threw' = FALSE
    /\ supplied' = patterns
    /\ text' = << >> /\ context_size' = 0 /\ matches' = << >>
    /\ kept' = << >>
    /\ rebuilt' = (Len(nodes) > 1)
    /\ UNCHANGED << case_sensitive_, alive, undefined, scans, ui >>

\* matcher.initialize(patterns) where build_trie indexes children with -1
\* (a pattern keeps a '\n'): undefined behaviour.  Either the process is
\* aborted, or the access lands on the word in front of the array and the
\* build goes on with it as one more slot.
InitializeUndefined(patterns) ==
    /\ alive
    /\ ~rejects(patterns)
    /\ indexes_out_of_range(patterns, case_sensitive_)
    /\ LET m == initialize(trie, patterns, case_sensitive_)
       IN  /\ patterns_' = m.patterns_
           /\ nodes' = m.nodes
           /\ node_count_' = m.node_count_
           /\ max_depth_' = m.max_depth_
    /\ alive' \in BOOLEAN
    /\ undefined' = TRUE
    /\ op' = "initialize"
    /\ threw' = FALSE
    /\ supplied' = patterns
    /\ text' = << >> /\ context_size' = 0 /\ matches' = << >>
    /\ kept' = << >>
    /\ rebuilt' = (Len(nodes) > 1)
    /\ UNCHANGED << case_sensitive_, scans, ui >>

\* What the caller holds of earlier searches once it searches again: with
\* `keep`, the search it made just before this one.
keeps(keep) ==
    IF keep /\ op = "search"
    THEN << [text |-> text, context_size |-> context_size, matches |-> matches] >>
    ELSE kept

\* A search whose vector of matches outlives the call: the records of the
\* search before are still in it.
SearchAccumulating(t, c, keep) ==
    /\ alive
    /\ op' = "search"
    /\ threw' = FALSE
    /\ text' = t
    /\ context_size' = c
    /\ matches' = sort_matches(matches \o search(nodes, patterns_,
                                                case_sensitive_, t, c))
    /\ kept' = keeps(keep)
    /\ UNCHANGED << matcher, alive, undefined, supplied, rebuilt, scans, ui >>

\* matcher.search(t, c): matches is a local of the call (line 68), empty at
\* its start.  keep: the caller keeps the result of the search before, to
\* compare later ones with.
Search(t, c, keep) ==
    /\ alive
    /\ op' = "search"
    /\ threw' = FALSE
    /\ text' = t
    /\ context_size' = c
    /\ matches' = search(nodes, patterns_, case_sensitive_, t, c)
    /\ kept' = keeps(keep)
    /\ UNCHANGED << matcher, alive, undefined, supplied, rebuilt, scans, ui >>

\* One step of a call of search with the locals s: the head of the loop
\* over the lines (lines 74-76, and the sort of line 97 when the lines are
\* done), or one pass of the loop over the columns (lines 78-94).
scan_advance(heap, patterns, s, c) ==
    IF s.pc = "line"
    THEN IF s.line_num < Len(s.lines)
         THEN [s EXCEPT !.current_node = line_start(@), !.col = 0, !.pc = "col"]
         ELSE [s EXCEPT !.matches = sort_matches(@), !.pc = "done"]
    ELSE LET line == s.lines[s.line_num + 1]
         IN  IF s.col >= Len(line)
             THEN [s EXCEPT !.line_num = @ + 1, !.pc = "line"]
             ELSE LET idx == char_to_index(line[s.col + 1])
                  IN  IF idx = -1 THEN [s EXCEPT !.col = @ + 1]
                      ELSE LET next == scan_step(heap, s.current_node, idx)
                           IN  [s EXCEPT
                                  !.current_node = next,
                                  !.matches = emit(heap, patterns, next, @,
                                                   s.line_num + 1, s.col + 1,
                                                   line, s.col, c),
                                  !.col = @ + 1]

\* Caller i enters search(t): lines 68-72, up to the loop over the lines.
ScanBegin(i, t) ==
    /\ alive
    /\ op = "initialize"
    /\ scans[i].pc = "idle"
    /\ scans' = [scans EXCEPT ![i] =
                    [pc |-> "line", text |-> t,
                     lines |-> split_lines(clean_text(case_sensitive_, t)),
                     line_num |-> 0, col |-> 0, current_node |-> NULL,
                     matches |-> << >>]]
    /\ UNCHANGED << matcher, alive, undefined, op, threw, supplied, text,
                    context_size, matches, kept, rebuilt, ui >>

\* A search whose current node is kept in the matcher and not in a local:
\* a step of one caller moves the node of the other callers too.
ScanStepShared(i) ==
    /\ alive
    /\ scans[i].pc \in {"line", "col"}
    /\ LET s == scan_advance(nodes, patterns_, scans[i], DEFAULT_CONTEXT)
       IN  scans' = [j \in Scanners |->
                        IF j = i THEN s
                        ELSE [scans[j] EXCEPT !.current_node = s.current_node]]
    /\ UNCHANGED << matcher, alive, undefined, op, threw, supplied, text,
                    context_size, matches, kept, rebuilt, ui >>

\* Caller i makes one step of its search, between steps of the others.
\* The step reads the automaton and patterns_ and writes locals only.
ScanStep(i) ==
    /\ alive
    /\ scans[i].pc \in {"line", "col"}
    /\ scans' = [scans EXCEPT ![i] =
                    scan_advance(nodes, patterns_, @, DEFAULT_CONTEXT)]
    /\ UNCHANGED << matcher, alive, undefined, op, threw, supplied, text,
                    context_size, matches, kept, rebuilt, ui >>

\* Caller i has taken the vector search returned (line 105).
ScanEnd(i) ==
    /\ alive
    /\ scans[i].pc = "done"
    /\ scans' = [scans EXCEPT ![i] = Idle]
    /\ UNCHANGED << matcher, alive, undefined, op, threw, supplied, text,
                    context_size, matches, kept, rebuilt, ui >>

RECURSIVE read_all_lines(_, _, _)
\* A loader without `if (!line.empty())`: every line is a pattern.
read_all_lines(contents, line, patterns) ==
    IF contents = << >>
    THEN IF line = << >> THEN patterns ELSE Append(patterns, line)
    ELSE IF Head(contents) = 10
         THEN read_all_lines(Tail(contents), << >>, Append(patterns, line))
         ELSE read_all_lines(Tail(contents), Append(line, Head(contents)),
                             patterns)

RECURSIVE read_patterns(_, _, _)
\* The std::getline loop of load_patterns_from_file: `line` is the line
\* being read; a line is pushed when it is not empty.
read_patterns(contents, line, patterns) ==
    IF contents = << >>
    THEN IF line = << >> THEN patterns ELSE Append(patterns, line)
    ELSE IF Head(contents) = 10
         THEN read_patterns(Tail(contents), << >>,
                            IF line # << >> THEN Append(patterns, line)
                            ELSE patterns)
         ELSE read_patterns(Tail(contents), Append(line, Head(contents)),
                            patterns)

\* ui::load_patterns_from_file(file_path), f what is at the path: it
\* throws std::runtime_error when the file does not open and when no
\* pattern was read.
LoadPatterns(f) ==
    /\ alive
    /\ op' = "load"
    /\ file' = f
    /\ LET patterns == IF f = Unreadable THEN << >>
                       ELSE read_patterns(f, << >>, << >>)
       IN  /\ threw' = (f = Unreadable \/ patterns = << >>)
           /\ loaded' = patterns
    /\ UNCHANGED << matcher, alive, undefined, supplied, text, context_size,
                    matches, kept, rebuilt, scans, menu >>

\* ------------------------------------------------------------- the menu
\* ui::interactive_menu.  Its matcher is the instance above; its local
\* case_sensitive is the flag the matcher was constructed with last, so
\* case_sensitive_ stands for both; verbose only selects what is printed.
\* Every handler runs inside the try of the loop: an exception is caught
\* and the menu goes on.

\* What the calls of the menu leave alone of the records of the last calls.
calls == << text, context_size, matches, kept, rebuilt, scans >>

\* ahocorasick::PatternMatcher(verbose, case_sensitive), as a trie.
constructed == [nodes |-> << NewNode >>, node_count_ |-> 0, max_depth_ |-> 0]

\* The matcher's members but the flag become those of m.
becomes(m) ==
    /\ patterns_' = m.patterns_
    /\ nodes' = m.nodes
    /\ node_count_' = m.node_count_
    /\ max_depth_' = m.max_depth_

\* case 1: patterns = load_patterns_from_file(path);
\*         matcher.initialize(patterns);
\* When the load throws, nothing is assigned.  The patterns are lines read
\* by std::getline: not empty, without '\n'.
MenuLoadPatterns(f) ==
    /\ alive
    /\ op' = "menu" /\ choice' = 1
    /\ LET patterns == IF f = Unreadable THEN << >>
                       ELSE read_patterns(f, << >>, << >>)
       IN  /\ threw' = (f = Unreadable \/ patterns = << >>)
           /\ IF f = Unreadable \/ patterns = << >>
              THEN UNCHANGED << menu_patterns, patterns_, nodes, node_count_,
                               max_depth_, supplied >>
              ELSE /\ menu_patterns' = patterns
                   /\ becomes(initialize(trie, patterns, case_sensitive_))
                   /\ supplied' = patterns
    /\ UNCHANGED << case_sensitive_, alive, undefined, calls, file, loaded,
                    menu_text, menu_context, last_results >>

\* case 2: patterns.clear(); the lines typed up to the first empty one are
\* pushed; with none typed the handler leaves by `continue`, else
\* matcher.initialize(patterns).
MenuEnterPatterns(typed) ==
    /\ alive
    /\ op' = "menu" /\ choice' = 2
    /\ threw' = FALSE
    /\ menu_patterns' = typed
    /\ IF typed = << >>
       THEN UNCHANGED << patterns_, nodes, node_count_, max_depth_, supplied >>
       ELSE /\ becomes(initialize(trie, typed, case_sensitive_))
            /\ supplied' = typed
    /\ UNCHANGED << case_sensitive_, alive, undefined, calls, file, loaded,
                    menu_text, menu_context, last_results >>

\* case 3: text = load_text_from_file(path), which throws when the file
\* does not open.
MenuLoadText(f) ==
    /\ alive
    /\ op' = "menu" /\ choice' = 3
    /\ threw' = (f = Unreadable)
    /\ menu_text' = IF f = Unreadable THEN menu_text ELSE f
    /\ UNCHANGED << matcher, alive, undefined, supplied, calls, file, loaded,
                    menu_patterns, menu_context, last_results >>

RECURSIVE typed_text(_)
\* text += line + "\n" for the lines typed before "FIN"
typed_text(lines) ==
    IF lines = << >> THEN << >>
    ELSE Head(lines) \o << 10 >> \o typed_text(Tail(lines))

\* case 4: text.clear(), then the lines typed.
MenuEnterText(lines) ==
    /\ alive
    /\ op' = "menu" /\ choice' = 4
    /\ threw' = FALSE
    /\ menu_text' = typed_text(lines)
    /\ UNCHANGED << matcher, alive, undefined, supplied, calls, file, loaded,
                    menu_patterns, menu_context, last_results >>

\* case 5: opt 1 toggles verbose, opt 2 case_sensitive, opt 3 reads
\* context_size; whatever opt is,
\*     matcher = ahocorasick::PatternMatcher(verbose, case_sensitive);
\*     if (!patterns.empty()) matcher.initialize(patterns);
MenuConfigure(opt, c) ==
    /\ alive
    /\ op' = "menu" /\ choice' = 5
    /\ threw' = FALSE
    /\ case_sensitive_' = IF opt = 2 THEN ~case_sensitive_ ELSE case_sensitive_
    /\ menu_context' = IF opt = 3 THEN c ELSE menu_context
    /\ IF menu_patterns # << >>
       THEN /\ becomes(initialize(constructed, menu_patterns,
                                  IF opt = 2 THEN ~case_sensitive_
                                  ELSE case_sensitive_))
            /\ supplied' = menu_patterns
       ELSE /\ becomes([patterns_ |-> << >>] @@ constructed)
            /\ UNCHANGED supplied
    /\ UNCHANGED << alive, undefined, calls, file, loaded, menu_patterns,
                    menu_text, last_results >>

\* case 6: nothing without patterns in the matcher or without text, else
\*     last_results = matcher.search(text, context_size);
MenuSearch ==
    /\ alive
    /\ op' = "menu" /\ choice' = 6
    /\ threw' = FALSE
    /\ last_results' =
          IF patterns_ = << >> \/ menu_text = << >> THEN last_results
          ELSE search(nodes, patterns_, case_sensitive_, menu_text, menu_context)
    /\ UNCHANGED << matcher, alive, undefined, supplied, calls, file, loaded,
                    menu_patterns, menu_text, menu_context >>

\* case 7: display_results(last_results) reads the records alone.
MenuShow ==
    /\ alive
    /\ op' = "menu" /\ choice' = 7
    /\ threw' = FALSE
    /\ UNCHANGED << matcher, alive, undefined, supplied, calls, file, loaded,
                    menu_patterns, menu_text, menu_context, last_results >>

\* The keys of pattern_counts: for (const auto& r : results)
\*                                 pattern_counts[r.pattern_id]++;
counted(results) == { results[k].pattern_id : k \in 1..Len(results) }

\* patterns[kv.first] with a key that is no index of patterns:
\* std::vector::operator[] does not check the index.
reads_beyond(results, patterns) ==
    \E id \in counted(results) : ~(id < Len(patterns))

\* case 8: generate_summary(last_results, matcher.patterns()) when there
\* are results.  An index beyond the list is undefined behaviour: the
\* process is aborted or writes whatever it finds there.
MenuSummary ==
    /\ alive
    /\ op' = "menu" /\ choice' = 8
    /\ threw' = FALSE
    /\ IF reads_beyond(last_results, patterns_)
       THEN alive' \in BOOLEAN /\ undefined' = TRUE
       ELSE UNCHANGED << alive, undefined >>
    /\ UNCHANGED << matcher, supplied, calls, file, loaded, menu_patterns,
                    menu_text, menu_context, last_results >>

\* case 9: export_to_html(last_results, matcher.patterns(), path) when
\* there are results; it throws when the output file does not open, and
\* indexes patterns as the summary does.
MenuExport(writable) ==
    /\ alive
    /\ op' = "menu" /\ choice' = 9
    /\ threw' = (last_results # << >> /\ ~writable)
    /\ IF (last_results # << >> /\ ~writable)
          \/ ~reads_beyond(last_results, patterns_)
       THEN UNCHANGED << alive, undefined >>
       ELSE alive' \in BOOLEAN /\ undefined' = TRUE
    /\ UNCHANGED << matcher, supplied, calls, file, loaded, menu_patterns,
                    menu_text, menu_context, last_results >>

\* ------------------------------------------------------------ the inputs
SeqsUpTo(S, n) == UNION { [1..k -> S] : k \in 0..n }

\* The non-empty patterns over 'a', 'b' up to MaxPatLen.
PatternPool == SeqsUpTo({97, 98}, MaxPatLen) \ { << >> }

\* The pattern lists of the spec's examples: {"he","she","hers"},
\* {"abcd","bc"}, {"He"}, {"cat"}, {"12he"}.
ExampleLists ==
    { << <<104, 101>>, <<115, 104, 101>>, <<104, 101, 114, 115>> >>,
      << <<97, 98, 99, 100>>, <<98, 99>> >>,
      << <<72, 101>> >>,
      << <<99, 97, 116>> >>,
      << <<49, 50, 104, 101>> >> }

\* Lists with patterns the normalizer changes, and lists of three: {""},
\* {"1"}, {"1", "a"}, {"a1", "a"}, {"1a", "ab"}, {"A", "a"}, {"Ab", "aB"},
\* {"a b", "b"}, {"a\tb"}, {"a\nb"}, {"b", "\n"}, {"bab", "ab", "b"},
\* {"a", "a", "aa"}, {"abb", "bab", "b"}, {"1b"}, {"abb", "b", "b"}.
SpecialLists ==
    { << << >> >>, << <<49>> >>, << <<49>>, <<97>> >>,
      << <<97, 49>>, <<97>> >>, << <<49, 97>>, <<97, 98>> >>,
      << <<65>>, <<97>> >>, << <<65, 98>>, <<97, 66>> >>,
      << <<97, 32, 98>>, <<98>> >>, << <<97, 9, 98>> >>,
      << <<97, 10, 98>> >>, << <<98>>, <<10>> >>,
      << <<98, 97, 98>>, <<97, 98>>, <<98>> >>,
      << <<97>>, <<97>>, <<97, 97>> >>,
      << <<97, 98, 98>>, <<98, 97, 98>>, <<98>> >>,
      << <<49, 98>> >>,
      << <<97, 98, 98>>, <<98>>, <<98>> >> }

\* The empty list, the lists of one and of two patterns of the pool, and
\* the lists above.
PatternLists ==
    { << >> } \cup { << p >> : p \in PatternPool }
    \cup { << p, q >> : p \in PatternPool, q \in PatternPool }
    \cup ExampleLists \cup SpecialLists

\* The examples' texts: "ushers", "abcd", "he", "HE", "ca\nt", "12",
\* "ab\nab", "a\n\nb", "\n", "A", "aB", "a  b", "a\tb", "a1b".
ExampleTexts ==
    { <<117, 115, 104, 101, 114, 115>>, <<97, 98, 99, 100>>, <<104, 101>>,
      <<72, 69>>, <<99, 97, 10, 116>>, <<49, 50>>,
      <<97, 98, 10, 97, 98>>, <<97, 10, 10, 98>>, <<10>>, <<65>>, <<97, 66>>,
      <<97, 32, 32, 98>>, <<97, 9, 98>>, <<97, 49, 98>> }

\* Texts over 'a', 'b' up to MaxTextLen, and the examples.
Texts == SeqsUpTo({97, 98}, MaxTextLen) \cup ExampleTexts

\* The context sizes a text is searched with.
ContextSizes(t) ==
    IF Len(t) <= 2 THEN (0 .. MaxContext) \cup {DEFAULT_CONTEXT}
    ELSE {DEFAULT_CONTEXT}

\* The inputs of the sessions: the lists {}, {"a"}, {"ab", "b"},
\* {"aba", "b"}, {"1", "a"}, {"A", "a"}, {"b", "\n"}, {""}, and the texts
\* "", "a", "b", "ab", "ba", "A", "12", "abb", "a\nb".
SessionLists ==
    { << >>, << <<97>> >>, << <<97, 98>>, <<98>> >>,
      << <<97, 98, 97>>, <<98>> >>, << <<49>>, <<97>> >>,
      << <<65>>, <<97>> >>, << <<98>>, <<10>> >>, << << >> >> }

SessionTexts ==
    { << >>, <<97>>, <<98>>, <<97, 98>>, <<98, 97>>, <<65>>, <<49, 50>>,
      <<97, 98, 98>>, <<97, 10, 98>> }

\* ------------------------------------------------------ specifications
Init == \E cs \in BOOLEAN : Construct(cs)

\* Any sequence of calls on one instance.
Next ==
    \/ \E p \in SessionLists : InitializeThrows(p)
    \/ \E p \in SessionLists : Initialize(p)
    \/ \E p \in SessionLists : InitializeUndefined(p)
    \/ \E t \in SessionTexts, keep \in BOOLEAN : Search(t, DEFAULT_CONTEXT, keep)

Spec == Init /\ [][Next]_vars

\* One initialize and then one search, over the wide input sets.
NextInputs ==
    \/ op = "construct" /\ \E p \in PatternLists : InitializeThrows(p)
    \/ op = "construct" /\ \E p \in PatternLists : Initialize(p)
    \/ op = "construct" /\ \E p \in PatternLists : InitializeUndefined(p)
    \/ op # "search" /\ \E t \in Texts : \E c \in ContextSizes(t) : Search(t, c, FALSE)

SpecInputs == Init /\ [][NextInputs]_vars

\* The inputs of the searches that run at the same time: the lists {"a"},
\* {"ab", "b"}, {"aba", "b"}, {"A", "a"}, and the texts "ab", "abb", "ba",
\* "a\nb", "A".
ScanLists ==
    { << <<97>> >>, << <<97, 98>>, <<98>> >>, << <<97, 98, 97>>, <<98>> >>,
      << <<65>>, <<97>> >> }

ScanTexts ==
    { <<97, 98>>, <<97, 98, 98>>, <<98, 97>>, <<97, 10, 98>>, <<65>> }

\* "alpha\nbeta\n", the file of the test file_loading.
AlphaBeta ==
    << 97, 108, 112, 104, 97, 10, 98, 101, 116, 97, 10 >>

\* The pattern files: a path that does not open, the files over 'a', 'b'
\* and '\n' up to MaxFileLen characters, and the test's file.
Files ==
    { Unreadable, AlphaBeta } \cup SeqsUpTo({97, 98, 10}, MaxFileLen)

\* Calls of load_patterns_from_file.
NextLoad == \E f \in Files : LoadPatterns(f)

SpecLoad == Init /\ [][NextLoad]_vars

\* One initialize, and then searches by two callers, their steps
\* interleaved in any order.
NextScans ==
    \/ op = "construct" /\ \E p \in ScanLists : Initialize(p)
    \/ \E i \in Scanners, t \in ScanTexts : ScanBegin(i, t)
    \/ \E i \in Scanners : ScanStep(i)
    \/ \E i \in Scanners : ScanEnd(i)

SpecScans == Init /\ [][NextScans]_vars

\* The inputs of the menu: the pattern files "b\n" and "a\nb\n" and a
\* path that does not open; the pattern lists typed {} and {"a"}; the text
\* file "ba" and a path that does not open; the texts typed "" and "b";
\* the options 1, 2, 3 and another number; the context sizes 0 and 20.
MenuFiles == { Unreadable, <<98, 10>>, <<97, 10, 98, 10>> }
MenuTyped == { << >>, << <<97>> >> }
TextFiles == { Unreadable, <<98, 97>> }
TypedTexts == { << >>, << <<98>> >> }
MenuOptions == 0..3
MenuContexts == {0, DEFAULT_CONTEXT}

\* interactive_menu starts with case_sensitive = false.
InitMenu == Construct(FALSE)

\* while (true): one choice after the other.
NextMenu ==
    \/ \E f \in MenuFiles : MenuLoadPatterns(f)
    \/ \E typed \in MenuTyped : MenuEnterPatterns(typed)
    \/ \E f \in TextFiles : MenuLoadText(f)
    \/ \E lines \in TypedTexts : MenuEnterText(lines)
    \/ \E opt \in MenuOptions : \E c \in MenuContexts : MenuConfigure(opt, c)
    \/ MenuSearch
    \/ MenuShow
    \/ MenuSummary
    \/ \E writable \in BOOLEAN : MenuExport(writable)

SpecMenu == InitMenu /\ [][NextMenu]_vars

\* ------------------------------------------------------------ the claims
\* The normalized form of the pattern with id i.
Normalized(i) == clean_text(case_sensitive_, patterns_[i + 1])

\* The normalized lines of the text of the last search.
Lines == split_lines(clean_text(case_sensitive_, text))

\* The alphabet codes of a string.
Codes(str) == [k \in 1..Len(str) |-> char_to_index(str[k])]

PatternIds == 0 .. (Len(patterns_) - 1)

\* The 1-based column of the scan position record r was emitted at: the
\* record's column is that position less the length of the pattern as
\* supplied, plus 1.
EmittedAt(r) == r.column + Len(patterns_[r.pattern_id + 1]) - 1

\* The normalized form of pattern i is not empty and occurs in line ln with
\* its last symbol at column e.
OccursAt(i, ln, e) ==
    LET np == Normalized(i)
    IN  /\ np # << >>
        /\ Len(np) <= e
        /\ e <= Len(Lines[ln])
        /\ SubSeq(Lines[ln], e - Len(np) + 1, e) = np

\* The records of the result for pattern i emitted at column e of line ln.
Records(i, ln, e) ==
    { k \in 1..Len(matches) :
        /\ matches[k].pattern_id = i
        /\ matches[k].line = ln
        /\ EmittedAt(matches[k]) = e }

RECURSIVE node_after(_, _)
\* The automaton state of the scan after the symbol at column e of `line`.
node_after(line, e) ==
    IF e = 0 THEN ROOT
    ELSE LET idx == char_to_index(line[e])
         IN  IF idx = -1 THEN node_after(line, e - 1)
             ELSE scan_step(nodes, node_after(line, e - 1), idx)

RECURSIVE path_of(_)
\* The codes on the path from the root to node n: the prefix n stands for.
path_of(n) ==
    IF n = ROOT THEN << >>
    ELSE LET p == CHOOSE q \in 1..Len(nodes) :
                      \E i \in ChildSlots : nodes[q].children[i] = n
             i == CHOOSE j \in ChildSlots : nodes[p].children[j] = n
         IN  Append(path_of(p), i)

IsSuffix(str, of) ==
    /\ Len(str) <= Len(of)
    /\ SubSeq(of, Len(of) - Len(str) + 1, Len(of)) = str

\* "he", "she", "hers"; "ushers"
HeSheHers == << <<104, 101>>, <<115, 104, 101>>, <<104, 101, 114, 115>> >>
Ushers == <<117, 115, 104, 101, 114, 115>>

\* C1: the result of a search holds one record for every occurrence of
\* every pattern (with a non-empty normalized form) in every normalized
\* line, whether the state reached at the occurrence's last symbol is
\* terminal or only a node of its output_link chain is.
C1_EveryOccurrenceReported ==
    op = "search" =>
        \A i \in PatternIds : \A ln \in 1..Len(Lines) :
            \A e \in 1..Len(Lines[ln]) :
                OccursAt(i, ln, e) => Cardinality(Records(i, ln, e)) = 1

\* C2: patterns "he", "she", "hers" on "ushers" give exactly "she" at
\* line 1 column 2, "he" at line 1 column 3 and "hers" at line 1 column 3,
\* in this order; and whenever the scan reaches a terminal state, every
\* pattern that is a suffix of that state's prefix has its record from that
\* scan position.
C2_SuffixPatternsAtTerminalState ==
    op = "search" =>
        /\ (patterns_ = HeSheHers /\ text = Ushers) =>
              [k \in 1..Len(matches) |->
                  << matches[k].line, matches[k].column, matches[k].pattern >>]
              = << << 1, 2, HeSheHers[2] >>, << 1, 3, HeSheHers[1] >>,
                   << 1, 3, HeSheHers[3] >> >>
        /\ \A ln \in 1..Len(Lines) : \A e \in 1..Len(Lines[ln]) :
              LET n == node_after(Lines[ln], e)
              IN  nodes[n].pattern_indices # << >> =>
                      \A i \in PatternIds :
                          (/\ Normalized(i) # << >>
                           /\ IsSuffix(Codes(Normalized(i)), path_of(n)))
                          => Cardinality(Records(i, ln, e)) = 1

\* C2 witness: the search of "ushers" has returned its three records, two
\* of them ("she", "he") from the terminal state reached at column 4.
C2_Witness ==
    /\ op = "search" /\ patterns_ = HeSheHers /\ text = Ushers
    /\ Len(matches) = 3
    /\ Cardinality({ k \in 1..Len(matches) : EmittedAt(matches[k]) = 4 }) = 2

\* C3: every record names a pattern whose normalized form is a substring of
\* the normalized line `line`, starting at `column` and ending at
\* column + (length of the normalized form) - 1.
C3_EveryRecordIsAnOccurrence ==
    op = "search" =>
        \A k \in 1..Len(matches) :
            LET r  == matches[k]
                np == Normalized(r.pattern_id)
            IN  /\ r.pattern_id \in PatternIds
                /\ r.line \in 1..Len(Lines)
                /\ r.column >= 1
                /\ r.column + Len(np) - 1 <= Len(Lines[r.line])
                /\ SubSeq(Lines[r.line], r.column, r.column + Len(np) - 1) = np

\* Every node of the automaton has its failure link set.
Usable == \A n \in 1..Len(nodes) : nodes[n].failure_link # NULL

\* C4: initialize throws exactly when the supplied list is empty; for every
\* non-empty list (patterns that normalize to empty included) it raises
\* nothing, runs as defined to its end and leaves a usable automaton built
\* from the supplied list.
C4_InitializeSucceedsUnlessEmpty ==
    op = "initialize" =>
        /\ threw <=> supplied = << >>
        /\ supplied # << >> =>
              /\ alive
              /\ ~undefined
              /\ patterns_ = supplied
              /\ Usable

\* C5: an initialize with the empty list throws and leaves the instance as
\* it was (pattern list, node count, depth, the automaton every search
\* reads); and the initialize with a non-empty list that follows a failed
\* one succeeds: it raises nothing and runs as defined to its end.
C5_FailedInitializeKeepsInstance ==
    [][ /\ (op' = "initialize" /\ supplied' = << >>) =>
              (threw' /\ matcher' = matcher /\ alive' = alive /\ kept' = kept)
        /\ (op = "initialize" /\ threw /\ op' = "initialize"
                /\ supplied' # << >>) =>
              (~threw' /\ alive' /\ undefined' = undefined /\ Usable') ]_vars

\* "He"; "he", "HE"
He == <<72, 101>>
HeTexts == { <<104, 101>>, <<72, 69>> }

\* C6: pattern "He" matches the texts "he" and "HE" when case-sensitivity
\* is disabled and matches neither when it is enabled; with it enabled
\* every record stands for an exact-case occurrence of its pattern.
C6_CaseHandling ==
    op = "search" =>
        /\ (patterns_ = << He >> /\ text \in HeTexts) =>
              (matches # << >> <=> ~case_sensitive_)
        /\ case_sensitive_ =>
              \A k \in 1..Len(matches) :
                  LET r  == matches[k]
                      np == Normalized(r.pattern_id)
                      e  == EmittedAt(r)
                  IN  SubSeq(Lines[r.line], e - Len(np) + 1, e) = np

\* "cat"; "ca\nt"
Cat == <<99, 97, 116>>
CaBreakT == <<99, 97, 10, 116>>

\* C7: no record stands for an occurrence that spans a line break: "cat"
\* on "ca\nt" gives no record, and for every pattern list and text the
\* symbols of every record's pattern all lie in the record's line, ending
\* at the position the record was emitted at.
C7_LineIsolation ==
    op = "search" =>
        /\ (patterns_ = << Cat >> /\ text = CaBreakT) => matches = << >>
        /\ \A k \in 1..Len(matches) :
              LET r  == matches[k]
                  np == Normalized(r.pattern_id)
                  e  == EmittedAt(r)
              IN  /\ r.line \in 1..Len(Lines)
                  /\ Len(np) <= e
                  /\ e <= Len(Lines[r.line])
                  /\ Codes(SubSeq(Lines[r.line], e - Len(np) + 1, e))
                         = Codes(np)

\* C7 witness: "cat" was searched in "ca\nt": two lines, "ca" and "t", and
\* no record.
C7_Witness ==
    /\ op = "search" /\ patterns_ = << Cat >> /\ text = CaBreakT
    /\ Lines = << <<99, 97>>, <<116>> >>
    /\ matches = << >>

\* The last search had the arguments of the search the caller kept.
SameAsKept ==
    /\ op = "search"
    /\ kept # << >>
    /\ kept[1].text = text
    /\ kept[1].context_size = context_size

\* C8: a search with the text and context size of an earlier search on the
\* same matcher, not re-initialized in between, returns the same sequence
\* of records, whatever searches ran in between.
C8_Determinism == SameAsKept => matches = kept[1].matches

\* C8 witness: a search has repeated a kept one and both returned the same
\* records, at least one.
C8_Witness == SameAsKept /\ matches # << >> /\ matches = kept[1].matches

\* The key (line, column, pattern_id) of a is less than or equal to that of
\* b, as size_t values.
KeyLeq(a, b) ==
    \/ SizeLess(a.line, b.line)
    \/ /\ a.line = b.line
       /\ \/ SizeLess(a.column, b.column)
          \/ a.column = b.column /\ ~SizeLess(b.pattern_id, a.pattern_id)

\* C9: the sequence a search returns is ascending by (line, column,
\* pattern_id): of two adjacent records the earlier one's key is less than
\* or equal to the later one's.
C9_SortedByKey ==
    op = "search" =>
        \A k \in 1..(Len(matches) - 1) : KeyLeq(matches[k], matches[k + 1])

\* C9 witness: the search returned its records in another order than it
\* collected them in, two of them at one line and column in the order of
\* their pattern ids.
C9_Witness ==
    /\ op = "search"
    /\ ~undefined
    /\ matches # scan_lines(nodes, patterns_, Lines, 0, ROOT, << >>,
                            context_size)
    /\ \E k \in 1..(Len(matches) - 1) :
          /\ matches[k].line = matches[k + 1].line
          /\ matches[k].column = matches[k + 1].column
          /\ matches[k].pattern_id < matches[k + 1].pattern_id

\* The text is not empty and holds only symbols the normalizer drops:
\* neither a letter nor a space, hyphen, newline or tab.
OnlyDropped(str) ==
    /\ str # << >>
    /\ \A k \in 1..Len(str) :
          /\ ~(str[k] \in 65..90 \/ str[k] \in 97..122)
          /\ str[k] \notin {32, 45, 10, 9}

\* The matcher was constructed and never initialized: no patterns, the
\* root alone, its failure link unset.
NeverInitialized ==
    /\ patterns_ = << >>
    /\ Len(nodes) = 1
    /\ nodes[ROOT].failure_link = NULL

\* C10: a search of the empty text, of a text of unsupported symbols only,
\* or on a matcher never initialized, raises nothing and returns no record.
C10_DegenerateSearchIsEmpty ==
    (op = "search" /\ (text = << >> \/ OnlyDropped(text) \/ NeverInitialized))
        => (matches = << >> /\ ~threw /\ alive)

\* C10 witness: "ushers" was searched on a matcher never initialized, and
\* no record came back.
C10_Witness ==
    /\ op = "search" /\ NeverInitialized /\ text = Ushers
    /\ matches = << >> /\ ~threw

\* The codes of `str` are the first symbols of the codes of `of`.
IsPrefix(str, of) ==
    /\ Len(str) <= Len(of)
    /\ SubSeq(of, 1, Len(str)) = str

\* C11: a pattern whose normalized form is empty is skipped by the build:
\* every node other than the root lies on the path of a pattern whose
\* normalized form is not empty, the pattern's id is in the
\* pattern_indices of no node (the root included), and no search returns a
\* record with its pattern_id.
C11_EmptyPatternsSkipped ==
    /\ \A n \in 2..Len(nodes) :
          \E i \in PatternIds :
              /\ Normalized(i) # << >>
              /\ IsPrefix(path_of(n), Codes(Normalized(i)))
    /\ \A i \in PatternIds :
          Normalized(i) = << >> =>
              /\ \A n \in 1..Len(nodes) :
                    \A k \in 1..Len(nodes[n].pattern_indices) :
                        nodes[n].pattern_indices[k] # i
              /\ \A k \in 1..Len(matches) : matches[k].pattern_id # i

\* C11 witness: a search on a list with a pattern that normalizes to empty
\* has returned records, all of them of the other patterns.
C11_Witness ==
    /\ op = "search"
    /\ \E i \in PatternIds : Normalized(i) = << >>
    /\ matches # << >>
    /\ \A k \in 1..Len(matches) : Normalized(matches[k].pattern_id) # << >>

\* What initialize(patterns_) makes of a matcher just constructed with the
\* same case_sensitive flag.
FreshlyInitialized ==
    initialize([nodes |-> << NewNode >>, node_count_ |-> 0, max_depth_ |-> 0],
               patterns_, case_sensitive_)

\* C12: after an initialize that built an automaton, whatever was
\* initialized before, patterns(), node_count(), max_depth(), every node
\* with its terminal ids and links, and the result of every search are
\* those of a fresh matcher on which only that initialize was called.
C12_InitializeRebuilds ==
    patterns_ # << >> =>
        /\ (op = "initialize" /\ ~threw) => patterns_ = supplied
        /\ nodes = FreshlyInitialized.nodes
        /\ node_count_ = FreshlyInitialized.node_count_
        /\ max_depth_ = FreshlyInitialized.max_depth_
        /\ op = "search" =>
              matches = search(FreshlyInitialized.nodes, patterns_,
                               case_sensitive_, text, context_size)

\* C12 witness: an automaton with nodes was replaced by the automaton of
\* {""}, the root alone, and a search of a text that is not empty returned
\* nothing.
C12_Witness ==
    /\ rebuilt
    /\ op = "search"
    /\ patterns_ = << << >> >>
    /\ Len(nodes) = 1
    /\ text # << >>
    /\ matches = << >>

\* C13: no step of a search changes the matcher (the nodes with their
\* terminal ids and links, the pattern list, node_count, max_depth), and a
\* search whose steps were interleaved with those of another search on the
\* same matcher returns what the search of its text returns when run
\* alone.
C13_SearchDoesNotMutate ==
    [][ /\ (op' = "search" \/ scans' # scans) => matcher' = matcher
        /\ \A i \in Scanners :
              scans'[i].pc = "done" =>
                  scans'[i].matches = search(nodes', patterns_', case_sensitive_',
                                             scans'[i].text, DEFAULT_CONTEXT)
      ]_vars

\* C13 witness: both callers are inside search, on different texts, each
\* past the first column of a line and each with a record collected.
C13_Witness ==
    /\ \A i \in Scanners :
          /\ scans[i].pc = "col"
          /\ scans[i].col >= 1
          /\ scans[i].matches # << >>
    /\ scans["first"].text # scans["second"].text

\* The non-empty prefixes of the normalized patterns.
NormalizedPrefixes ==
    UNION { { SubSeq(Normalized(i), 1, k) : k \in 1..Len(Normalized(i)) } :
                i \in PatternIds }

\* The length of the longest normalized pattern.
LongestNormalized ==
    LET lengths == { Len(Normalized(i)) : i \in PatternIds }
    IN  CHOOSE d \in lengths : \A e \in lengths : e <= d

\* C14: after a successful initialize(P), patterns() is P, node_count() is
\* 1 plus the number of distinct non-empty prefixes of the normalized
\* patterns, and max_depth() is the length of the longest normalized
\* pattern; for {"he", "she", "hers"} there are 3 patterns, more than 3
\* nodes and a depth of at least 3.
C14_AccessorsAfterInitialize ==
    (op = "initialize" /\ ~threw /\ ~undefined) =>
        /\ patterns_ = supplied
        /\ node_count_ = 1 + Cardinality(NormalizedPrefixes)
        /\ max_depth_ = LongestNormalized
        /\ patterns_ = HeSheHers =>
              (Len(patterns_) = 3 /\ node_count_ > 3 /\ max_depth_ >= 3)

\* The lines of a file that are not empty, in the order of the file.
NonEmptyLines(contents) ==
    SelectSeq(split_lines(contents), LAMBDA line : line # << >>)

\* C15: load_patterns_from_file returns the non-empty lines of the file in
\* file order, one pattern for each ("alpha", "beta" for the file with
\* these two lines); it throws exactly when the file does not open or
\* holds no non-empty line, and never returns an empty list.
C15_LoadPatternsFromFile ==
    op = "load" =>
        /\ threw <=> (file = Unreadable \/ NonEmptyLines(file) = << >>)
        /\ ~threw =>
              /\ loaded = NonEmptyLines(file)
              /\ loaded # << >>
              /\ \A k \in 1..Len(loaded) : loaded[k] # << >>
        /\ file = AlphaBeta =>
              loaded = << <<97, 108, 112, 104, 97>>, <<98, 101, 116, 97>> >>

\* C15 witness: the file "a\n\nb" was loaded: two patterns, the empty
\* line between them left out.
C15_Witness ==
    /\ op = "load" /\ ~threw
    /\ file = <<97, 10, 10, 98>>
    /\ loaded = << <<97>>, <<98>> >>

\* C16: every symbol of the normalized form of every pattern given to
\* initialize has a code in [0, ALPHABET_SIZE), a pattern with a newline
\* included, so build_trie never indexes the children of a node with -1.
C16_NormalizedPatternsIndexable ==
    (op = "initialize" /\ ~threw) =>
        /\ \A i \in 1..Len(supplied) :
              LET pattern == clean_text(case_sensitive_, supplied[i])
              IN  \A k \in 1..Len(pattern) :
                      char_to_index(pattern[k]) \in 0..(ALPHABET_SIZE - 1)
        /\ ~undefined
        /\ \A n \in 1..Len(nodes) : nodes[n].children[-1] = NULL

\* The nodes whose prefix is a proper suffix of the prefix of node n.
ProperSuffixNodes(n) ==
    { m \in 1..Len(nodes) :
        /\ Len(path_of(m)) < Len(path_of(n))
        /\ IsSuffix(path_of(m), path_of(n)) }

\* The node of the longest proper suffix of the prefix of n that is a
\* prefix in the trie; the root stands for the empty suffix.
LongestSuffixNode(n) ==
    CHOOSE m \in ProperSuffixNodes(n) :
        \A q \in ProperSuffixNodes(n) : Len(path_of(q)) <= Len(path_of(m))

\* An initialize has built the automaton and the process runs.
Initialized == patterns_ # << >> /\ alive

RECURSIVE first_terminal_above(_)
\* The first node with terminal patterns met when the failure links are
\* walked upward from node n, n itself and the root left out; NULL when
\* the walk meets none.
first_terminal_above(n) ==
    LET f == nodes[n].failure_link
    IN  IF n = ROOT \/ f = NULL \/ f = ROOT THEN NULL
        ELSE IF nodes[f].pattern_indices # << >> THEN f
             ELSE first_terminal_above(f)

\* C18: after initialize the output_link of every node is the first node
\* with terminal patterns on the walk of the failure links above it, and
\* null when there is none; so every node an output_link leads to has
\* terminal patterns.
C18_OutputLinks ==
    Initialized =>
        \A n \in 1..Len(nodes) :
            /\ nodes[n].output_link = first_terminal_above(n)
            /\ nodes[n].output_link # NULL =>
                  nodes[nodes[n].output_link].pattern_indices # << >>

\* C18 witness: some node has an output_link that is not its failure link:
\* the failure link has no terminal pattern and the output_link is the
\* terminal node further up.
C18_Witness ==
    /\ Initialized
    /\ \E n \in 1..Len(nodes) :
          /\ nodes[n].output_link # NULL
          /\ nodes[n].output_link # nodes[n].failure_link
          /\ nodes[nodes[n].failure_link].pattern_indices = << >>

RECURSIVE reaches_root(_, _)
\* Following failure links from node n reaches the root in at most k steps.
reaches_root(n, k) ==
    IF n = ROOT THEN TRUE
    ELSE IF n = NULL \/ k = 0 THEN FALSE
         ELSE reaches_root(nodes[n].failure_link, k - 1)

RECURSIVE reaches_null(_, _)
\* Following output links from node n reaches null in at most k steps.
reaches_null(n, k) ==
    IF n = NULL THEN TRUE
    ELSE IF k = 0 THEN FALSE
         ELSE reaches_null(nodes[n].output_link, k - 1)

RECURSIVE node_of(_, _)
\* The node the string str leads to from node n, NULL when the trie has no
\* such path.
node_of(n, str) ==
    IF str = << >> \/ n = NULL THEN n
    ELSE node_of(nodes[n].children[char_to_index(Head(str))], Tail(str))

\* The non-empty suffixes of the string read that are prefixes of some
\* normalized pattern.
QualifyingSuffixes(read) == { s \in NormalizedPrefixes : IsSuffix(s, read) }

\* The longest string of a non-empty set of strings of distinct lengths.
Longest(strs) == CHOOSE s \in strs : \A u \in strs : Len(u) <= Len(s)

\* C20: within every line of a search, after the symbol at each column is
\* consumed the current state is the node of the longest suffix of the line
\* read so far that is a prefix of some normalized pattern, and the root
\* when no non-empty suffix is one.
C20_ScannerState ==
    op = "search" =>
        \A ln \in 1..Len(Lines) : \A e \in 1..Len(Lines[ln]) :
            LET quals == QualifyingSuffixes(SubSeq(Lines[ln], 1, e))
            IN  node_after(Lines[ln], e) =
                    IF quals = {} THEN ROOT ELSE node_of(ROOT, Longest(quals))

\* "12he"; "he"
DigitsHe == <<49, 50, 104, 101>>
LowerHe == <<104, 101>>

\* C21: the column of every record is the 1-based position of the first
\* symbol of the match in its normalized line: it lies in 1 .. the length
\* of the line (the subtraction column - pattern_length + 1 does not wrap
\* below 1), and the symbols of the line from that column on carry the
\* alphabet codes of the record's normalized pattern; pattern "12he" on
\* text "he" gives column 1.
C21_ColumnIsMatchStart ==
    op = "search" =>
        /\ \A k \in 1..Len(matches) :
              LET r  == matches[k]
                  np == Normalized(r.pattern_id)
              IN  /\ 1 <= r.column
                  /\ r.column <= Len(Lines[r.line])
                  /\ r.column + Len(np) - 1 <= Len(Lines[r.line])
                  /\ Codes(SubSeq(Lines[r.line], r.column,
                                  r.column + Len(np) - 1)) = Codes(np)
        /\ (patterns_ = << DigitsHe >> /\ text = LowerHe) =>
              (Len(matches) = 1 /\ matches[1].column = 1)

\* start and end of the context of a match whose last symbol has the
\* 0-based index pos, for a pattern of the given length in a line of
\* line_length symbols.
ContextStart(pos, pattern_length, line_length) ==
    IF pos + 1 > pattern_length
    THEN Min(pos - pattern_length, line_length) ELSE 0

ContextEnd(pos, context_window, line_length) ==
    Min(pos + context_window, line_length)

RECURSIVE Collapsed(_)
\* str with every run of consecutive spaces replaced by one space.
Collapsed(str) ==
    IF str = << >> THEN << >>
    ELSE LET rest == Collapsed(Tail(str))
         IN  IF Head(str) = 32 /\ rest # << >> /\ Head(rest) = 32
             THEN rest ELSE << Head(str) >> \o rest

\* C22: every record was emitted at a position pos of its line (0-based,
\* the last symbol of the match) such that, with pattern_length the length
\* of the record's pattern text, start <= end <= line_length, and the
\* record's context is the symbols [start, end) of the line with the runs
\* of spaces collapsed; this holds for context_window = 0 as well.
C22_ContextWindow ==
    op = "search" =>
        \A k \in 1..Len(matches) :
            LET r    == matches[k]
                line == Lines[r.line]
                pos  == EmittedAt(r) - 1
                b    == ContextStart(pos, Len(r.pattern), Len(line))
                e    == ContextEnd(pos, context_size, Len(line))
            IN  /\ pos \in 0 .. Len(line) - 1
                /\ 0 <= b /\ b <= e /\ e <= Len(line)
                /\ r.context = Collapsed(SubSeq(line, b + 1, e))

\* A record's context lost a space of the line.
SpaceCollapsed ==
    \E k \in 1..Len(matches) :
        LET r   == matches[k]
            pos == EmittedAt(r) - 1
            b   == ContextStart(pos, Len(r.pattern), Len(Lines[r.line]))
            e   == ContextEnd(pos, context_size, Len(Lines[r.line]))
        IN  Len(r.context) < e - b

\* C22 witness: a search with context_window = 0 has returned a record
\* whose context is not empty and ends before the last symbol of the match.
C22_Witness ==
    /\ op = "search"
    /\ context_size = 0
    /\ \E k \in 1..Len(matches) :
          /\ matches[k].context # << >>
          /\ ContextEnd(EmittedAt(matches[k]) - 1, 0,
                        Len(Lines[matches[k].line])) = EmittedAt(matches[k]) - 1

\* The ids of the patterns whose normalized form is not empty and spells
\* the prefix of node n.
SpelledBy(n) ==
    { i \in PatternIds :
          Normalized(i) # << >> /\ node_of(ROOT, Normalized(i)) = n }

\* The pattern_indices of every node are in increasing order and are the
\* ids of the patterns that spell the node's prefix.
TerminalPatternsInOrder ==
    \A n \in 1..Len(nodes) :
        LET ids == nodes[n].pattern_indices
        IN  /\ \A k \in 1..(Len(ids) - 1) : ids[k] < ids[k + 1]
            /\ { ids[k] : k \in 1..Len(ids) } = SpelledBy(n)

\* C23: after initialize the pattern_indices of every node hold, in
\* increasing order, exactly the ids of the patterns whose normalized form
\* spells the node's prefix; two patterns with the same normalized form
\* have their ids on the same node, and a search returns one record for
\* each of the two ids at every occurrence of that form.
C23_TerminalPatterns ==
    Initialized =>
        /\ TerminalPatternsInOrder
        /\ \A i \in PatternIds : \A j \in PatternIds \ {i} :
              (Normalized(i) = Normalized(j) /\ Normalized(i) # << >>) =>
                  /\ \E n \in 1..Len(nodes) : {i, j} \subseteq SpelledBy(n)
                  /\ op = "search" =>
                        \A ln \in 1..Len(Lines) : \A e \in 1..Len(Lines[ln]) :
                            OccursAt(i, ln, e) =>
                                Cardinality(Records(i, ln, e)) = 1

\* C24: whenever the summary (option 8) or the export (option 9) of the
\* menu has run on results, every pattern_id of last_results is an index of
\* matcher.patterns() and names the pattern the record was made for.
C24_ResultsIndexPatterns ==
    (op = "menu" /\ choice \in {8, 9} /\ ~threw) =>
        \A k \in 1..Len(last_results) :
            LET r == last_results[k]
            IN  /\ r.pattern_id \in 0 .. (Len(patterns_) - 1)
                /\ patterns_[r.pattern_id + 1] = r.pattern

\* C25: after every action of the menu its pattern list is
\* matcher.patterns(), and once patterns were loaded the matcher holds the
\* list it was initialized with last: no zero-pattern entry (option 2), no
\* failed load (option 1) and no later option 5 leaves it without them.
C25_MenuListIsMatcherList ==
    op = "menu" =>
        /\ menu_patterns = patterns_
        /\ supplied # << >> => patterns_ = supplied

=========================================================================
